---- MODULE Spec2Model ----
(***************************************************************************)
(* Model of src/command-injection/process_packages.py: the semver parser   *)
(* parse_semver, the comparator compare_semver, and the per-directory loop *)
(* of main that uses them.                                                 *)
(*                                                                         *)
(* A Python str is a sequence of one-character strings, so that the        *)
(* regular expressions, str.split, str.isdigit, int() and the str order    *)
(* are computed character by character.  A Python int is unbounded; it is  *)
(* the sequence of its decimal digits without leading zeros.               *)
(***************************************************************************)
EXTENDS Integers, Sequences, FiniteSets, TLC

\* ------------------------------------------------------------ Python values

\* Python's None, and a value that is not None.
None == <<>>
Some(x) == <<x>>
Val(o) == o[1]

\* The characters the model's strings are made of.
Chars ==
  {"\n", " ", "+", "-", ".", "0", "1", "2", "3", "4", "5", "6", "7", "8", "9",
   "A", "B", "^", "a", "b", "v", "x", "~"}

\* ord(ch): the code point of a character.
ord(ch) ==
  CASE ch = "\n" -> 10 [] ch = " " -> 32 [] ch = "+" -> 43 [] ch = "-" -> 45
    [] ch = "." -> 46 [] ch = "0" -> 48 [] ch = "1" -> 49 [] ch = "2" -> 50
    [] ch = "3" -> 51 [] ch = "4" -> 52 [] ch = "5" -> 53 [] ch = "6" -> 54
    [] ch = "7" -> 55 [] ch = "8" -> 56 [] ch = "9" -> 57 [] ch = "A" -> 65
    [] ch = "B" -> 66 [] ch = "^" -> 94 [] ch = "a" -> 97 [] ch = "b" -> 98
    [] ch = "v" -> 118 [] ch = "x" -> 120 [] ch = "~" -> 126

\* \d of the regular expressions (the ASCII digits of the model's characters).
IsDigitChar(ch) == ord(ch) \in 48..57

\* The character class [0-9A-Za-z.-] of the regular expressions.
IsIdentChar(ch) ==
  ord(ch) \in (48..57) \cup (65..90) \cup (97..122) \cup {45, 46}

\* str.isdigit(): at least one character, and all of them digits.
isdigit(s) == Len(s) > 0 /\ \A i \in 1..Len(s) : IsDigitChar(s[i])

\* s[i-1:j-1] of Python, with 1-based positions: the characters i .. j-1.
Slice(s, i, j) == SubSeq(s, i, j - 1)

\* int(s) for a string of digits: the digits' values, leading zeros dropped.
RECURSIVE StripZeros(_)
StripZeros(ds) ==
  IF Len(ds) > 1 /\ ds[1] = 0 THEN StripZeros(Tail(ds)) ELSE ds

int(s) == StripZeros([i \in 1..Len(s) |-> ord(s[i]) - 48])

\* The order of two ints: 1 when x > y, -1 when x < y, 0 when equal.
RECURSIVE DigitsCmp(_, _)
DigitsCmp(x, y) ==
  IF x = <<>> THEN 0
  ELSE IF x[1] > y[1] THEN 1
  ELSE IF x[1] < y[1] THEN -1
  ELSE DigitsCmp(Tail(x), Tail(y))

\* IntCmp with the digits compared from the left like text, whatever the
\* number of digits.
RECURSIVE IntCmpAsText(_, _)
IntCmpAsText(x, y) ==
  IF x = <<>> /\ y = <<>> THEN 0
  ELSE IF x = <<>> THEN -1
  ELSE IF y = <<>> THEN 1
  ELSE IF x[1] > y[1] THEN 1
  ELSE IF x[1] < y[1] THEN -1
  ELSE IntCmpAsText(Tail(x), Tail(y))

IntCmp(x, y) ==
  IF Len(x) > Len(y) THEN 1
  ELSE IF Len(x) < Len(y) THEN -1
  ELSE DigitsCmp(x, y)

\* The order of two strs (x > y, x < y): by code point, a proper prefix first.
RECURSIVE StrCmp(_, _)
StrCmp(x, y) ==
  IF x = <<>> /\ y = <<>> THEN 0
  ELSE IF x = <<>> THEN -1
  ELSE IF y = <<>> THEN 1
  ELSE IF ord(x[1]) > ord(y[1]) THEN 1
  ELSE IF ord(x[1]) < ord(y[1]) THEN -1
  ELSE StrCmp(Tail(x), Tail(y))

\* s.split("."): the pieces between the dots, empty pieces included.
RECURSIVE split(_)
split(s) ==
  IF \A i \in 1..Len(s) : s[i] # "."
  THEN <<s>>
  ELSE LET d == CHOOSE i \in 1..Len(s) :
                  s[i] = "." /\ \A k \in 1..(i - 1) : s[k] # "."
       IN <<Slice(s, 1, d)>> \o split(Slice(s, d + 1, Len(s) + 1))

\* 2^64 - 1 and 2^64 in decimal.
U64MaxStr ==
  <<"1", "8", "4", "4", "6", "7", "4", "4", "0", "7",
    "3", "7", "0", "9", "5", "5", "1", "6", "1", "5">>
U64OverStr ==
  <<"1", "8", "4", "4", "6", "7", "4", "4", "0", "7",
    "3", "7", "0", "9", "5", "5", "1", "6", "1", "6">>

\* ------------------------------------------------------ regular expressions
\* A position is 1-based; position 0 stands for "no match up to here".

\* \d+ from position i: the position after the longest run of digits, which
\* is the only run that can match, a shorter one being followed by a digit.
DigitRun(s, i) ==
  IF i = 0 \/ i > Len(s) \/ ~IsDigitChar(s[i]) THEN 0
  ELSE CHOOSE j \in (i + 1)..(Len(s) + 1) :
         /\ j = Len(s) + 1 \/ ~IsDigitChar(s[j])
         /\ \A k \in i..(j - 1) : IsDigitChar(s[k])

\* [0-9A-Za-z.-]+ from position i: the position after the longest run.  The
\* run is followed by a character outside the class, which a shorter run
\* would leave a class character in front of, so only the longest can match.
IdentRun(s, i) ==
  IF i = 0 \/ i > Len(s) \/ ~IsIdentChar(s[i]) THEN 0
  ELSE CHOOSE j \in (i + 1)..(Len(s) + 1) :
         /\ j = Len(s) + 1 \/ ~IsIdentChar(s[j])
         /\ \A k \in i..(j - 1) : IsIdentChar(s[k])

\* One literal character ch at position i: the position after it.
Lit(s, i, ch) == IF i # 0 /\ i <= Len(s) /\ s[i] = ch THEN i + 1 ELSE 0

\* (?:<lead>([0-9A-Za-z.-]+))? from position i: the position after it, which
\* is i itself when the optional part matches nothing.
OptSegment(s, i, lead) ==
  IF IdentRun(s, Lit(s, i, lead)) # 0 THEN IdentRun(s, Lit(s, i, lead)) ELSE i

\* $ without re.MULTILINE: the end of the string, or just before a newline
\* that ends the string.
AtDollar(s, i) == i = Len(s) + 1 \/ (i = Len(s) /\ s[i] = "\n")

\* r"^(\d+)\.(\d+)\.(\d+)(?:-([0-9A-Za-z.-]+))?(?:\+([0-9A-Za-z.-]+))?$":
\* the position after each part of the expression, matched from the start.
MajorEnd(ver) == DigitRun(ver, 1)
MinorEnd(ver) == DigitRun(ver, Lit(ver, MajorEnd(ver), "."))
PatchEnd(ver) == DigitRun(ver, Lit(ver, MinorEnd(ver), "."))
PreEnd(ver) == OptSegment(ver, PatchEnd(ver), "-")
MetaEnd(ver) == OptSegment(ver, PreEnd(ver), "+")

\* re.match(...) is not None
SemverMatch(ver) == PatchEnd(ver) # 0 /\ AtDollar(ver, MetaEnd(ver))

\* Group4 with the build metadata taken into the prerelease group.
Group4WithMeta(ver) ==
  IF PreEnd(ver) = PatchEnd(ver) THEN None
  ELSE Some(Slice(ver, PatchEnd(ver) + 1, MetaEnd(ver)))

\* m.group(1) .. m.group(4) of a match; group 4 is None when the optional
\* prerelease part matched nothing.
Group1(ver) == Slice(ver, 1, MajorEnd(ver))
Group2(ver) == Slice(ver, MajorEnd(ver) + 1, MinorEnd(ver))
Group3(ver) == Slice(ver, MinorEnd(ver) + 1, PatchEnd(ver))
Group4(ver) ==
  IF PreEnd(ver) = PatchEnd(ver) THEN None
  ELSE Some(Slice(ver, PatchEnd(ver) + 1, PreEnd(ver)))

\* ------------------------------------------------------------- parse_semver

\* pre of parse_semver: None, or the pieces of the prerelease group.
PreOf(prerelease) ==
  IF prerelease = None THEN None ELSE Some(split(Val(prerelease)))

\* parse_semver with a 64-bit range check on major, minor and patch.
parse_semver_u64(ver) ==
  IF ~SemverMatch(ver) THEN None
  ELSE IF \/ IntCmp(int(Group1(ver)), int(U64MaxStr)) = 1
          \/ IntCmp(int(Group2(ver)), int(U64MaxStr)) = 1
          \/ IntCmp(int(Group3(ver)), int(U64MaxStr)) = 1
  THEN None
  ELSE Some(<<int(Group1(ver)), int(Group2(ver)), int(Group3(ver)),
              PreOf(Group4(ver))>>)

\* parse_semver(ver): None, or (major, minor, patch, pre).
parse_semver(ver) ==
  IF ~SemverMatch(ver) THEN None
  ELSE Some(<<int(Group1(ver)), int(Group2(ver)), int(Group3(ver)),
              PreOf(Group4(ver))>>)

\* ----------------------------------------------------------- compare_semver

\* TokenCmp with a digit token and another token compared as text.
TokenCmpMixedAsText(xa, xb) ==
  IF isdigit(xa) /\ isdigit(xb) THEN IntCmp(int(xa), int(xb))
  ELSE StrCmp(xa, xb)

\* TokenCmp with the all-digit token of a mixed pair taken as the greater.
TokenCmpDigitsHigh(xa, xb) ==
  IF isdigit(xa) /\ isdigit(xb) THEN IntCmp(int(xa), int(xb))
  ELSE IF isdigit(xa) THEN 1
  ELSE IF isdigit(xb) THEN -1
  ELSE StrCmp(xa, xb)

\* One prerelease token pair (lines 71-86): 1, -1, or 0 when the loop goes on.
TokenCmp(xa, xb) ==
  IF isdigit(xa) /\ isdigit(xb) THEN IntCmp(int(xa), int(xb))
  ELSE IF isdigit(xa) THEN -1
  ELSE IF isdigit(xb) THEN 1
  ELSE StrCmp(xa, xb)

\* PreLoop over range(min(la, lb)): the tokens past the shorter list ignored.
RECURSIVE PreLoopOverShorter(_, _, _)
PreLoopOverShorter(a_pre, b_pre, i) ==
  IF i > Len(a_pre) \/ i > Len(b_pre) THEN 0
  ELSE IF TokenCmp(a_pre[i], b_pre[i]) # 0 THEN TokenCmp(a_pre[i], b_pre[i])
  ELSE PreLoopOverShorter(a_pre, b_pre, i + 1)

\* PreLoop with the exhausted list taken as the greater.
RECURSIVE PreLoopShorterHigh(_, _, _)
PreLoopShorterHigh(a_pre, b_pre, i) ==
  IF i > Len(a_pre) /\ i > Len(b_pre) THEN 0
  ELSE IF i > Len(a_pre) THEN 1
  ELSE IF i > Len(b_pre) THEN -1
  ELSE IF TokenCmp(a_pre[i], b_pre[i]) # 0 THEN TokenCmp(a_pre[i], b_pre[i])
  ELSE PreLoopShorterHigh(a_pre, b_pre, i + 1)

\* The loop over range(max(la, lb)) (lines 64-87) from 1-based index i on.
RECURSIVE PreLoop(_, _, _)
PreLoop(a_pre, b_pre, i) ==
  IF i > Len(a_pre) /\ i > Len(b_pre) THEN 0
  ELSE IF i > Len(a_pre) THEN -1
  ELSE IF i > Len(b_pre) THEN 1
  ELSE IF TokenCmp(a_pre[i], b_pre[i]) # 0 THEN TokenCmp(a_pre[i], b_pre[i])
  ELSE PreLoop(a_pre, b_pre, i + 1)

\* PreCmp with the version without prerelease taken as the lesser.
PreCmpReleaseLow(a_pre, b_pre) ==
  IF a_pre = None /\ b_pre = None THEN 0
  ELSE IF a_pre = None THEN -1
  ELSE IF b_pre = None THEN 1
  ELSE PreLoop(Val(a_pre), Val(b_pre), 1)

\* Lines 53-87: the prerelease parts of two versions with equal triples.
PreCmp(a_pre, b_pre) ==
  IF a_pre = None /\ b_pre = None THEN 0
  ELSE IF a_pre = None THEN 1
  ELSE IF b_pre = None THEN -1
  ELSE PreLoop(Val(a_pre), Val(b_pre), 1)

\* The loop over range(3) (lines 47-51) from 1-based index i on: 1, -1, or 0
\* when major, minor and patch are all equal.
RECURSIVE TripleLoop(_, _, _)
TripleLoop(pa, pb, i) ==
  IF i > 3 THEN 0
  ELSE IF IntCmp(pa[i], pb[i]) # 0 THEN IntCmp(pa[i], pb[i])
  ELSE TripleLoop(pa, pb, i + 1)

\* Lines 47-87, for two parsed versions.
CompareParsed(pa, pb) ==
  IF TripleLoop(pa, pb, 1) # 0 THEN TripleLoop(pa, pb, 1)
  ELSE PreCmp(pa[4], pb[4])

\* Lines 45-46, then the rest.
CompareOrNone(pa, pb) ==
  IF pa = None \/ pb = None THEN None
  ELSE Some(CompareParsed(Val(pa), Val(pb)))

\* compare_semver(a, b): Some(1), Some(0), Some(-1), or None.
compare_semver(a, b) == CompareOrNone(parse_semver(a), parse_semver(b))

\* ------------------------------------------------------------------ inputs

\* The longest prerelease list of the generated version strings.
MaxPre == 2

\* "1.0.0", the release most inputs share.
Base100 == <<"1", ".", "0", ".", "0">>

\* Prerelease tokens: empty, numeric (with a leading zero, with two digits),
\* alphabetic (a prefix pair, an upper-case letter), and digit-led alphanumeric.
Tok ==
  {<<>>, <<"9">>, <<"0", "9">>, <<"1", "0">>,
   <<"a">>, <<"a", "b">>, <<"B">>, <<"1", "a">>}

\* The tokens a list has before its last one: two that tie as numbers.
PrefixTok == {<<"9">>, <<"0", "9">>}

RECURSIVE PrefixLists(_)
PrefixLists(n) ==
  IF n = 0 THEN {<<>>}
  ELSE LET s == PrefixLists(n - 1)
       IN s \cup {Append(p, t) : p \in s, t \in PrefixTok}

\* Token lists of 1 .. n tokens: a prefix, then any token.
PreLists(toks, n) == {Append(p, t) : p \in PrefixLists(n - 1), t \in toks}

\* ".".join(list)
RECURSIVE join(_)
join(list) ==
  IF Len(list) = 1 THEN list[1]
  ELSE list[1] \o <<".">> \o join(Tail(list))

\* Build-metadata segments (None: no "+" at all).
MetaPool ==
  {None, Some(<<"b">>), Some(<<"x", "-", "1", ".", ".", "2">>)}

WithPre(rel, list) == rel \o <<"-">> \o join(list)
WithMeta(s, meta) == IF meta = None THEN s ELSE s \o <<"+">> \o Val(meta)

\* The string up to its first "+".
BeforePlus(s) ==
  IF \A i \in 1..Len(s) : s[i] # "+" THEN s
  ELSE Slice(s, 1, CHOOSE i \in 1..Len(s) :
                     s[i] = "+" /\ \A k \in 1..(i - 1) : s[k] # "+")

\* The strings that differ from s only in the build metadata.
MetaVariants(s) == {WithMeta(BeforePlus(s), meta) : meta \in MetaPool}

\* Releases that differ in major, minor or patch, in digit count and in
\* leading zeros, up to values beyond 64 bits.
Releases ==
  {Base100,
   <<"0", "1", ".", "0", ".", "0">>,
   <<"1", ".", "0", ".", "1">>,
   <<"1", ".", "9", ".", "0">>,
   <<"1", ".", "1", "0", ".", "0">>,
   <<"2", ".", "0", ".", "0">>,
   U64MaxStr \o <<".", "0", ".", "0">>,
   U64OverStr \o <<".", "0", ".", "0">>,
   <<"1", ".">> \o U64OverStr \o <<".", "0">>}

\* Strings around the edges of the grammar.
Edges ==
  {<<>>,
   <<"1", ".", "2">>,
   <<"1", ".", ".", "0">>,
   <<"v">> \o Base100,
   <<"^">> \o Base100,
   Base100 \o <<".", "0">>,
   Base100 \o <<" ">>,
   Base100 \o <<"\n">>,
   Base100 \o <<"-">>,
   Base100 \o <<"-", "a", "+">>,
   Base100 \o <<"-", "~">>,
   Base100 \o <<"-", "a", ".", ".", "b">>,
   Base100 \o <<"-", ".">>,
   Base100 \o <<"-", "a", ".">>,
   Base100 \o <<"-", "a", "-", "b">>,
   Base100 \o <<"+", "b", "+", "b">>,
   Base100 \o <<"+", "b", "-", "a">>,
   Base100 \o <<"-", "a", "+", "b", ".", "1">>}

\* The version strings the operations are applied to.
Inputs ==
  {Base100}
    \cup {WithPre(Base100, l) : l \in PreLists(Tok, MaxPre)}
    \cup {r : r \in Releases}
    \cup {WithPre(r, l) : r \in Releases, l \in {<<<<"a">>>>, <<<<"9">>, <<"a">>>>}}
    \cup Edges

\* A smaller set for the laws that relate three versions.
OrderTok == {<<>>, <<"9">>, <<"0", "9">>, <<"1", "0">>, <<"1", "a">>}
OrderInputs ==
  {Base100, <<"1", ".", "9", ".", "0">>, <<"1", ".", "1", "0", ".", "0">>}
    \cup {WithPre(Base100, l) : l \in PreLists(OrderTok, MaxPre)}

\* ------------------------------------------------- main: values and inputs

\* The most subdirectories the base directory has.
MaxDirs == 2

\* The names of the subdirectories, in sorted order.
DirNames == <<"alpha", "beta", "gamma">>
subs == SubSeq(DirNames, 1, MaxDirs)
SubNames == {subs[k] : k \in 1..Len(subs)}

\* A JSON value: a string, or anything else (a number, null, a missing key).
Str(chars) == [isstr |-> TRUE, s |-> chars]
NonStr == [isstr |-> FALSE, s |-> <<>>]

\* A JSON object as the list of its (key, value) items in order, or a value
\* that is no object.
Dict(items) == [isdict |-> TRUE, items |-> items]
NotDict == [isdict |-> FALSE, items |-> <<>>]
HasKey(d, k) == \E n \in 1..Len(d.items) : d.items[n][1] = k
Lookup(d, k) == d.items[CHOOSE n \in 1..Len(d.items) : d.items[n][1] = k][2]
SetKey(d, k, v) ==
  [d EXCEPT !.items = [n \in 1..Len(d.items) |->
                         IF d.items[n][1] = k THEN <<k, v>> ELSE d.items[n]]]

\* What a package.json is: missing, not JSON, or an object with its
\* fixedVersion and dependencies.
NoFile == [kind |-> "missing", fixedVersion |-> NonStr, dependencies |-> NotDict]
BadFile == [kind |-> "invalid", fixedVersion |-> NonStr, dependencies |-> NotDict]
Package(fixedVersion, dependencies) ==
  [kind |-> "object", fixedVersion |-> fixedVersion, dependencies |-> dependencies]
\* What is left of a copy that raised.
Partial == [kind |-> "partial", fixedVersion |-> NonStr, dependencies |-> NotDict]

V101 == <<"1", ".", "0", ".", "1">>
Caret100 == <<"^">> \o Base100
Latest == <<"x">>

\* The dependencies a package.json of directory name may have.
DepsPool(name) ==
  {Dict(<<<<name, Str(Caret100)>>>>),
   Dict(<<<<name, Str(V101)>>>>),
   Dict(<<<<"other", Str(Caret100)>>>>),
   Dict(<<<<"other", Str(V101)>>>>),
   Dict(<<<<"", Str(Caret100)>>>>),
   Dict(<<<<"other", Str(Caret100)>>, <<"third", Str(Caret100)>>>>),
   Dict(<<<<name, NonStr>>>>),
   Dict(<<<<name, Str(Latest)>>>>),
   NotDict}

\* The package.json files directory name may hold.
PkgPool(name) ==
  {NoFile, BadFile,
   Package(NonStr, Dict(<<<<name, Str(Caret100)>>>>)),
   Package(Str(<<"v">> \o V101), Dict(<<<<name, Str(Caret100)>>>>)),
   Package(Str(WithPre(Base100, <<<<"a">>>>)), Dict(<<<<name, Str(Caret100)>>>>)),
   Package(Str(WithPre(Base100, <<<<"a">>>>)), Dict(<<<<"other", Str(Caret100)>>>>))}
    \cup {Package(Str(V101), d) : d \in DepsPool(name)}

\* The failure categories, in the order of type_lists.
Categories ==
  <<"MissingPackage", "InvalidJSON", "InvalidFixed", "CopyError",
    "MismatchedDeps", "SwapError", "InvalidDepVersion", "SameVersion",
    "VersionNotGreater">>

\* VERSION_RE: r"^\d+\.\d+\.\d+(?:[-+][0-9A-Za-z.-]+)?$"

\* (?:[-+][0-9A-Za-z.-]+)? from position i: the position after it.
OptSegmentEither(s, i) ==
  IF IdentRun(s, Lit(s, i, "-")) # 0 THEN IdentRun(s, Lit(s, i, "-"))
  ELSE IF IdentRun(s, Lit(s, i, "+")) # 0 THEN IdentRun(s, Lit(s, i, "+"))
  ELSE i

\* \d+\.\d+\.\d+ from position i: the position after it.
ReleaseEnd(s, i) ==
  DigitRun(s, Lit(s, DigitRun(s, Lit(s, DigitRun(s, i), ".")), "."))

\* VERSION_RE.match(fixed) is not None
VersionReMatch(s) ==
  ReleaseEnd(s, 1) # 0 /\ AtDollar(s, OptSegmentEither(s, ReleaseEnd(s, 1)))

\* re.search(r"\d+\.\d+\.\d+(?:[-+][0-9A-Za-z.-]+)?", dep_version): the
\* leftmost position where the expression matches, 0 when there is none.
SearchStart(s) ==
  IF \A i \in 1..Len(s) : ReleaseEnd(s, i) = 0 THEN 0
  ELSE CHOOSE i \in 1..Len(s) :
         ReleaseEnd(s, i) # 0 /\ \A k \in 1..(i - 1) : ReleaseEnd(s, k) = 0

\* m.group(0) of that search.
SearchGroup0(s, i) == Slice(s, i, OptSegmentEither(s, ReleaseEnd(s, i)))

\* -------------------------------------------------------------- state machine

VARIABLES
  a, b, c,        \* the version strings
  pc,             \* "input", then "parsed", then "compared"
  pa, pb, pcv,    \* parse_semver of a, b, c
  r,              \* compare_semver of the pairs: r.ab is compare_semver(a, b)
  dry_run,        \* args.dry_run
  pkgs,           \* the package.json of each subdirectory
  mpc,            \* where main is: "load", "deps", "check", "copy", "swap",
                  \* "move", "done"
  idx,            \* the index in subs of the subdirectory of the loop
  fixed, dep_key, dep_version,   \* the locals of the loop body
  primary_failure,               \* name -> category, None when not set
  type_lists,                    \* category -> list of names
  safe, vul,      \* Safe/package.json and Vul/package.json of each directory
  cmp_of,         \* how lines 228-264 went for each directory: "compared"
                  \* with the result of compare_semver, "invalid" for a
                  \* dependency version that cannot be compared, else "none"
  swapped,        \* the directories whose Safe/package.json was swapped
  moved           \* the directories moved under Failed, with the category

coreVars == <<a, b, c, pc, pa, pb, pcv, r>>
mainVars == <<dry_run, pkgs, mpc, idx, fixed, dep_key, dep_version,
              primary_failure, type_lists, safe, vul, cmp_of, swapped, moved>>
vars == <<coreVars, mainVars>>

NoResults == [ab |-> None, ba |-> None, aa |-> None,
              bc |-> None, ac |-> None, cb |-> None]

NotCalled == [outcome |-> "none", result |-> None]
InvalidDep == [outcome |-> "invalid", result |-> None]
Called(cmp) == [outcome |-> "compared", result |-> cmp]

\* main before its loop (lines 148-172) over a tree that has no Safe, Vul.
\* The lists invalid_fixed, mismatched_deps and missing_package (lines
\* 148-150) are appended to and never read, and the summary (lines 346-378)
\* only prints: neither is state here.
MainStart ==
  /\ idx = 1
  /\ fixed = NonStr /\ dep_key = None /\ dep_version = None
  /\ primary_failure = [n \in SubNames |-> None]
  /\ type_lists = [k \in 1..Len(Categories) |-> <<>>]
  /\ safe = [n \in SubNames |-> NoFile]
  /\ vul = [n \in SubNames |-> NoFile]
  /\ cmp_of = [n \in SubNames |-> NotCalled]
  /\ swapped = {}
  /\ moved = [n \in SubNames |-> None]

\* main is not running.
MainIdle ==
  /\ dry_run = FALSE
  /\ pkgs = [n \in SubNames |-> NoFile]
  /\ mpc = "idle"
  /\ MainStart

Start ==
  /\ pc = "input"
  /\ pa = None /\ pb = None /\ pcv = None
  /\ r = NoResults

\* Two versions, and a third that differs from the first in build metadata.
Init ==
  /\ a \in Inputs
  /\ b \in Inputs
  /\ c \in MetaVariants(a)
  /\ Start
  /\ MainIdle

\* Three versions.
InitOrder ==
  /\ a \in OrderInputs
  /\ b \in OrderInputs
  /\ c \in OrderInputs
  /\ Start
  /\ MainIdle

\* Lines 43-44 of compare_semver, for each string: pa = parse_semver(a).
Parse ==
  /\ pc = "input"
  /\ pa' = parse_semver(a)
  /\ pb' = parse_semver(b)
  /\ pcv' = parse_semver(c)
  /\ pc' = "parsed"
  /\ UNCHANGED <<a, b, c, r, mainVars>>

\* Lines 45-87 of compare_semver, for each pair of strings.
Compare ==
  /\ pc = "parsed"
  /\ r' = [ab |-> CompareOrNone(pa, pb), ba |-> CompareOrNone(pb, pa),
           aa |-> CompareOrNone(pa, pa), bc |-> CompareOrNone(pb, pcv),
           ac |-> CompareOrNone(pa, pcv), cb |-> CompareOrNone(pcv, pb)]
  /\ pc' = "compared"
  /\ UNCHANGED <<a, b, c, pa, pb, pcv, mainVars>>

Next == Parse \/ Compare

Spec == Init /\ [][Next]_vars
SpecOrder == InitOrder /\ [][Next]_vars

\* ----------------------------------------------------------------------- main

\* main over a base directory whose subdirectories hold any package.json.
MainInit ==
  /\ a = <<>> /\ b = <<>> /\ c = <<>>
  /\ pc = "idle"
  /\ pa = None /\ pb = None /\ pcv = None
  /\ r = NoResults
  /\ dry_run \in BOOLEAN
  /\ pkgs \in {f \in [SubNames -> UNION {PkgPool(n) : n \in SubNames}] :
                 \A n \in SubNames : f[n] \in PkgPool(n)}
  /\ mpc = "load"
  /\ MainStart

sub == subs[idx]
CategoryIndex(cat) == CHOOSE k \in 1..Len(Categories) : Categories[k] = cat

\* mark_failure(name, category) (lines 166-170): the first category of a
\* name stays.
MarkPrimary(pf, name, cat) ==
  IF pf[name] = None THEN [pf EXCEPT ![name] = Some(cat)] ELSE pf
MarkLists(tl, pf, name, cat) ==
  IF pf[name] = None
  THEN [tl EXCEPT ![CategoryIndex(cat)] = Append(@, name)]
  ELSE tl

mark_failure(name, cat) ==
  /\ primary_failure' = MarkPrimary(primary_failure, name, cat)
  /\ type_lists' = MarkLists(type_lists, primary_failure, name, cat)

\* continue, or the end of the loop body: the next subdirectory, or the end
\* of the loop.
Continue ==
  /\ idx' = idx + 1
  /\ mpc' = IF idx + 1 > Len(subs) THEN "move" ELSE "load"

\* Lines 175-195: read package.json and check fixedVersion.
LoadPackage ==
  /\ mpc = "load"
  /\ IF pkgs[sub].kind = "missing"
     THEN mark_failure(sub, "MissingPackage") /\ Continue /\ UNCHANGED fixed
     ELSE IF pkgs[sub].kind = "invalid"
     THEN mark_failure(sub, "InvalidJSON") /\ Continue /\ UNCHANGED fixed
     ELSE /\ fixed' = pkgs[sub].fixedVersion
          /\ IF ~fixed'.isstr \/ ~VersionReMatch(fixed'.s)
             THEN mark_failure(sub, "InvalidFixed") /\ Continue
             ELSE /\ mpc' = "deps"
                  /\ UNCHANGED <<idx, primary_failure, type_lists>>
  /\ UNCHANGED <<coreVars, dry_run, pkgs, dep_key, dep_version, safe, vul,
                 cmp_of, swapped, moved>>

\* Lines 197-226: the dependency key and version.
PickDependency ==
  /\ mpc = "deps"
  /\ LET deps == pkgs[sub].dependencies
     IN IF deps.isdict /\ HasKey(deps, sub)
        THEN /\ dep_key' = Some(sub)
             /\ dep_version' = Some(Lookup(deps, sub))
             /\ UNCHANGED <<primary_failure, type_lists>>
        ELSE IF deps.isdict /\ Len(deps.items) = 1
        THEN /\ dep_key' = Some(deps.items[1][1])
             /\ dep_version' = Some(deps.items[1][2])
             /\ mark_failure(sub, "MismatchedDeps")
        ELSE /\ dep_key' = None
             /\ dep_version' = None
             /\ mark_failure(sub, "MismatchedDeps")
  /\ mpc' = "check"
  /\ UNCHANGED <<coreVars, dry_run, pkgs, idx, fixed, safe, vul, cmp_of,
                 swapped, moved>>

\* "if dep_key": a key that is neither None nor the empty string.
Truthy(key) == key # None /\ Val(key) # ""

\* Verdict without the test for equal versions.
VerdictNoEqual(cmp) ==
  IF cmp = None THEN "InvalidFixed"
  ELSE IF Val(cmp) < 0 THEN "VersionNotGreater"
  ELSE ""

\* Lines 241-258: the category that a result of compare_semver stops the
\* directory with, "" when it goes on.
Verdict(cmp) ==
  IF cmp = None THEN "InvalidFixed"
  ELSE IF Val(cmp) = 0 THEN "SameVersion"
  ELSE IF Val(cmp) < 0 THEN "VersionNotGreater"
  ELSE ""

\* Lines 239-258, for a dependency version in which the search matched at m.
CompareVersions(m) ==
  LET cmp == compare_semver(fixed.s, SearchGroup0(Val(dep_version).s, m))
  IN /\ cmp_of' = [cmp_of EXCEPT ![sub] = Called(cmp)]
     /\ IF Verdict(cmp) # ""
        THEN mark_failure(sub, Verdict(cmp)) /\ Continue
        ELSE /\ mpc' = "copy"
             /\ UNCHANGED <<idx, primary_failure, type_lists>>

\* Lines 228-264: the dependency version against fixedVersion.
CheckVersions ==
  /\ mpc = "check"
  /\ IF Truthy(dep_key) /\ Val(dep_version).isstr
     THEN IF SearchStart(Val(dep_version).s) = 0
          THEN /\ mark_failure(sub, "InvalidDepVersion")
               /\ Continue
               /\ cmp_of' = [cmp_of EXCEPT ![sub] = InvalidDep]
          ELSE CompareVersions(SearchStart(Val(dep_version).s))
     ELSE IF Truthy(dep_key)
     THEN /\ mark_failure(sub, "InvalidDepVersion")
          /\ Continue
          /\ cmp_of' = [cmp_of EXCEPT ![sub] = InvalidDep]
     ELSE /\ mpc' = "copy"
          /\ UNCHANGED <<idx, primary_failure, type_lists, cmp_of>>
  /\ UNCHANGED <<coreVars, dry_run, pkgs, fixed, dep_key, dep_version, safe,
                 vul, swapped, moved>>

\* Lines 266-282: copy the directory into Safe and Vul.  A copy raises or
\* not as the file system decides; the copy into Vul is not reached when the
\* copy into Safe raises.
CopyContents ==
  /\ mpc = "copy"
  /\ IF dry_run
     THEN Continue /\ UNCHANGED <<safe, vul, primary_failure, type_lists>>
     ELSE \E raised \in {"no", "Safe", "Vul"} :
            /\ safe' = [safe EXCEPT ![sub] =
                          IF raised = "Safe" THEN Partial ELSE pkgs[sub]]
            /\ vul' = [vul EXCEPT ![sub] =
                         IF raised = "Safe" THEN @
                         ELSE IF raised = "Vul" THEN Partial ELSE pkgs[sub]]
            /\ IF raised # "no"
               THEN mark_failure(sub, "CopyError") /\ Continue
               ELSE /\ mpc' = "swap"
                    /\ UNCHANGED <<idx, primary_failure, type_lists>>
  /\ UNCHANGED <<coreVars, dry_run, pkgs, fixed, dep_key, dep_version,
                 cmp_of, swapped, moved>>

\* Lines 300-303: fixedVersion and the dependency's version exchanged.
SwapOf(safe_pkg, key) ==
  [safe_pkg EXCEPT
     !.fixedVersion = Lookup(safe_pkg.dependencies, key),
     !.dependencies = SetKey(safe_pkg.dependencies, key, safe_pkg.fixedVersion)]

\* Lines 284-312: load Safe/package.json and swap.  load_json returns None
\* or not, and write_json writes the file or not, as the file system decides.
SwapVersions ==
  /\ mpc = "swap"
  /\ \E loaded \in BOOLEAN, written \in BOOLEAN :
       IF ~loaded
       THEN /\ mark_failure(sub, "SwapError")
            /\ UNCHANGED <<safe, swapped>>
       ELSE IF /\ Truthy(dep_key)
               /\ safe[sub].dependencies.isdict
               /\ HasKey(safe[sub].dependencies, Val(dep_key))
       THEN /\ safe' = [safe EXCEPT ![sub] =
                          IF written THEN SwapOf(@, Val(dep_key)) ELSE Partial]
            /\ swapped' = swapped \cup {sub}
            /\ UNCHANGED <<primary_failure, type_lists>>
       ELSE /\ mark_failure(sub, "SwapError")
            /\ UNCHANGED <<safe, swapped>>
  /\ Continue
  /\ UNCHANGED <<coreVars, dry_run, pkgs, fixed, dep_key, dep_version, vul,
                 cmp_of, moved>>

\* Lines 314-344: the failed directories go under Failed/<category>, unless
\* this is a dry run.
MoveFailed ==
  /\ mpc = "move"
  /\ moved' = IF dry_run THEN moved ELSE primary_failure
  /\ mpc' = "done"
  /\ UNCHANGED <<coreVars, dry_run, pkgs, idx, fixed, dep_key, dep_version,
                 primary_failure, type_lists, safe, vul, cmp_of, swapped>>

MainNext ==
  \/ LoadPackage
  \/ PickDependency
  \/ CheckVersions
  \/ CopyContents
  \/ SwapVersions
  \/ MoveFailed

MainSpec == MainInit /\ [][MainNext]_vars

\* ===================================================================== claims

\* Both compare_semver(a, b) and compare_semver(b, a) have returned for two
\* strings that parse_semver accepts.
Compared == pc = "compared" /\ pa # None /\ pb # None

Triple(p) == SubSeq(Val(p), 1, 3)
Pre(p) == Val(p)[4]
BothPre == Pre(pa) # None /\ Pre(pb) # None
APre == Val(Pre(pa))
BPre == Val(Pre(pb))

\* A token that consists entirely of digits, and the number it denotes.
AllDigits(t) == t # <<>> /\ \A i \in 1..Len(t) : t[i] \in {"0", "1", "2", "3", "4", "5", "6", "7", "8", "9"}
RECURSIVE NatOf(_)
NatOf(t) ==
  IF t = <<>> THEN 0
  ELSE 10 * NatOf(SubSeq(t, 1, Len(t) - 1)) + (ord(t[Len(t)]) - 48)

\* x is before y in the lexicographic order by code point: at the first
\* position where they differ x has ended or has the smaller code point.
LexLess(x, y) ==
  \E k \in 1..Len(y) :
    /\ k <= Len(x) + 1
    /\ \A m \in 1..(k - 1) : x[m] = y[m]
    /\ k = Len(x) + 1 \/ ord(x[k]) < ord(y[k])

\* x is a smaller number than y, for two ints (digits without leading zeros).
NumLess(x, y) ==
  \/ Len(x) < Len(y)
  \/ /\ Len(x) = Len(y)
     /\ \E k \in 1..Len(x) : x[k] < y[k] /\ \A m \in 1..(k - 1) : x[m] = y[m]

\* Two tokens that no rule of the comparison tells apart.
Tied(x, y) ==
  IF AllDigits(x) /\ AllDigits(y) THEN NatOf(x) = NatOf(y)
  ELSE x = y

\* C1: for valid versions a, b, c: compare(a, a) is Equal; compare(a, b) and
\* compare(b, a) are inverses; Greater is transitive.
C1_TotalOrderLaws ==
  (Compared /\ pcv # None) =>
    /\ r.aa = Some(0)
    /\ r.ba = Some(0 - Val(r.ab))
    /\ (r.ab = Some(1) /\ r.bc = Some(1)) => r.ac = Some(1)

\* Three different prerelease versions of one release, in falling order.
C1_Witness ==
  /\ Compared /\ pcv # None
  /\ BothPre /\ Pre(pcv) # None
  /\ r.ab = Some(1) /\ r.bc = Some(1) /\ r.ac = Some(1)
  /\ r.ba = Some(-1)

\* C2, as claimed: compare(a, b) is Equal only if a and b are structurally
\* equal, prerelease tokens taken as stored.
C2_EqualOnlyIfIdentical == (Compared /\ r.ab = Some(0)) => pa = pb

\* C2, amended: compare(a, b) is Equal only if the triples are equal and the
\* prerelease lists are both absent, or have the same length and at every
\* index hold the same token or two all-digit tokens of the same value.
C2_EqualOnlyIfTied ==
  (Compared /\ r.ab = Some(0)) =>
    /\ Triple(pa) = Triple(pb)
    /\ (Pre(pa) = None) = (Pre(pb) = None)
    /\ BothPre =>
         /\ Len(APre) = Len(BPre)
         /\ \A i \in 1..Len(APre) : Tied(APre[i], BPre[i])

\* Equal versions whose stored tokens differ in a leading zero.
C2_Witness ==
  /\ Compared /\ r.ab = Some(0) /\ BothPre
  /\ pa # pb
  /\ \E i \in 1..Len(APre) : APre[i] # BPre[i]

\* C3: with equal triples, a version without prerelease is Greater than one
\* with a prerelease (and Less as the second argument); two versions without
\* prerelease are Equal.
C3_ReleaseBeatsPrerelease ==
  (Compared /\ Triple(pa) = Triple(pb) /\ Pre(pa) = None) =>
    /\ Pre(pb) # None => (r.ab = Some(1) /\ r.ba = Some(-1))
    /\ Pre(pb) = None => r.ab = Some(0)

\* A release against a prerelease of two tokens of the same triple.
C3_Witness ==
  /\ Compared /\ Triple(pa) = Triple(pb)
  /\ Pre(pa) = None /\ Pre(pb) # None /\ Len(BPre) >= 2
  /\ r.ab = Some(1)

\* C4: the first of major, minor, patch that differs decides, by its value
\* as a number, whatever the prerelease parts are; leading zeros do not
\* count ("01.0.0" against "1.0.0" comes to the prerelease rules).
C4_TripleFirst ==
  Compared =>
    /\ \A i \in 1..3 :
         (/\ \A k \in 1..(i - 1) : Val(pa)[k] = Val(pb)[k]
          /\ NumLess(Val(pb)[i], Val(pa)[i]))
           => (r.ab = Some(1) /\ r.ba = Some(-1))
    /\ (a = <<"0", "1", ".", "0", ".", "0">> /\ b = Base100) => r.ab = Some(0)
    /\ (Group1(a) = <<"0", "1">> /\ Group1(b) = <<"1">>)
         => Val(pa)[1] = Val(pb)[1]

\* "1.10.0-a" against "1.9.0": the minor decides, as a number, against both
\* the string order of "10" and "9" and the prerelease of the first.
C4_Witness ==
  /\ Compared
  /\ a = <<"1", ".", "1", "0", ".", "0", "-", "a">>
  /\ b = <<"1", ".", "9", ".", "0">>
  /\ r.ab = Some(1)

\* The index of the first token pair that is not tied, 0 when there is none
\* among the indices both lists have.
FirstUntied ==
  LET both == 1..(IF Len(APre) < Len(BPre) THEN Len(APre) ELSE Len(BPre))
      untied == {i \in both : ~Tied(APre[i], BPre[i])}
  IN IF untied = {} THEN 0
     ELSE CHOOSE i \in untied : \A k \in untied : i <= k

\* What the rule of C5 says of an untied token pair.
RuleOf(x, y) ==
  IF AllDigits(x) /\ AllDigits(y) THEN (IF NatOf(x) < NatOf(y) THEN -1 ELSE 1)
  ELSE IF AllDigits(x) THEN -1
  ELSE IF AllDigits(y) THEN 1
  ELSE IF LexLess(x, y) THEN -1
  ELSE 1

\* C5: with equal triples and both prerelease lists present, the first token
\* pair that is not tied decides: two all-digit tokens by value, an all-digit
\* token is Less than another token, two other tokens by code point with a
\* proper prefix Less.
C5_FirstUntiedTokenDecides ==
  (Compared /\ Triple(pa) = Triple(pb) /\ BothPre /\ FirstUntied # 0) =>
    /\ r.ab = Some(RuleOf(APre[FirstUntied], BPre[FirstUntied]))
    /\ r.ba = Some(RuleOf(BPre[FirstUntied], APre[FirstUntied]))
    /\ r.ab = Some(0 - Val(r.ba))

\* A tie at the first index (9 against 09) and a digit token against another
\* one at the second.
C5_Witness ==
  /\ Compared /\ Triple(pa) = Triple(pb) /\ BothPre
  /\ FirstUntied = 2
  /\ APre[1] # BPre[1]
  /\ AllDigits(APre[2]) /\ ~AllDigits(BPre[2])
  /\ r.ab = Some(-1)

\* C6: with equal triples and both prerelease lists present, when all the
\* indices both lists have are tied, the shorter list is Less, and lists of
\* the same length are Equal.
C6_ShorterPrefixIsLess ==
  (Compared /\ Triple(pa) = Triple(pb) /\ BothPre /\ FirstUntied = 0) =>
    /\ Len(APre) < Len(BPre) => (r.ab = Some(-1) /\ r.ba = Some(1))
    /\ Len(APre) = Len(BPre) => r.ab = Some(0)

\* A list against a longer one that starts with it up to a leading zero.
C6_Witness ==
  /\ Compared /\ Triple(pa) = Triple(pb) /\ BothPre
  /\ FirstUntied = 0
  /\ Len(APre) < Len(BPre)
  /\ APre[1] # BPre[1]
  /\ r.ab = Some(-1)

\* The grammar of the specification, from start to end of the string:
\*   version    := digits "." digits "." digits ("-" idlist)? ("+" idlist)?
\*   idlist     := identifier ("." identifier)*
\*   identifier := one or more of [0-9A-Za-z-]
IsIdList(s) ==
  /\ s # <<>>
  /\ \A i \in 1..Len(s) : IsIdentChar(s[i])
  /\ s[1] # "." /\ s[Len(s)] # "."
  /\ \A i \in 1..(Len(s) - 1) : ~(s[i] = "." /\ s[i + 1] = ".")

IsMetaPart(s) == s = <<>> \/ (s[1] = "+" /\ IsIdList(Tail(s)))

IsAfterRelease(s) ==
  \/ IsMetaPart(s)
  \/ /\ s[1] = "-"
     /\ \E e \in 2..(Len(s) + 1) :
          IsIdList(Slice(s, 2, e)) /\ IsMetaPart(Slice(s, e, Len(s) + 1))

InGrammar(s) ==
  \E i \in 1..Len(s) :
    /\ s[i] = "." /\ AllDigits(Slice(s, 1, i))
    /\ \E j \in (i + 1)..Len(s) :
         /\ s[j] = "." /\ AllDigits(Slice(s, i + 1, j))
         /\ \E e \in (j + 1)..(Len(s) + 1) :
              /\ AllDigits(Slice(s, j + 1, e))
              /\ IsAfterRelease(Slice(s, e, Len(s) + 1))

\* C7, as claimed: parse returns a Version exactly for the strings of the
\* grammar, so that every prerelease token of a Version is a non-empty
\* string over [0-9A-Za-z-].
C7_ParseIffGrammar ==
  pc # "input" =>
    /\ (pa # None) = InGrammar(a)
    /\ (pa # None /\ Pre(pa) # None) =>
         \A i \in 1..Len(APre) :
           APre[i] # <<>> /\ \A k \in 1..Len(APre[i]) : IsIdentChar(APre[i][k])

\* The digits of 2^64 - 1, and a digit string that denotes a greater number.
U64Max == int(U64MaxStr)
Beyond64(digits) == NumLess(U64Max, int(digits))
HasBeyond64(s) ==
  Beyond64(Group1(s)) \/ Beyond64(Group2(s)) \/ Beyond64(Group3(s))

\* C8, as claimed: a string of the grammar with a major, minor or patch
\* beyond 2^64 - 1 yields no Version.
C8_OverflowFails ==
  (pc # "input" /\ InGrammar(a) /\ HasBeyond64(a)) => pa = None

\* C8, amended: a string of the grammar yields a Version whatever the size
\* of its components; a component beyond 2^64 - 1 is kept digit for digit.
C8_NoOverflowFailure ==
  (pc # "input" /\ InGrammar(a)) =>
    /\ pa # None
    /\ Beyond64(Group1(a)) => Val(pa)[1] = [i \in 1..Len(Group1(a)) |-> NatOf(<<Group1(a)[i]>>)]
    /\ Beyond64(Group2(a)) => Val(pa)[2] = [i \in 1..Len(Group2(a)) |-> NatOf(<<Group2(a)[i]>>)]
    /\ Beyond64(Group3(a)) => Val(pa)[3] = [i \in 1..Len(Group3(a)) |-> NatOf(<<Group3(a)[i]>>)]

\* "18446744073709551616.0.0" parsed into a Version.
C8_Witness ==
  /\ pc # "input"
  /\ a = U64OverStr \o <<".", "0", ".", "0">>
  /\ pa # None
  /\ NumLess(U64Max, Val(pa)[1])

\* C9: two accepted strings that differ only in the build metadata parse to
\* the same Version, and compare alike with every version.
C9_BuildMetadataIgnored ==
  (/\ pc = "compared"
   /\ BeforePlus(a) = BeforePlus(c)
   /\ pa # None /\ pcv # None) =>
    /\ pa = pcv
    /\ r.ab = r.cb
    /\ r.ac = Some(0)

\* A prerelease version with and without metadata, against a third version
\* that it is not equal to.
C9_Witness ==
  /\ pc = "compared"
  /\ BeforePlus(a) = BeforePlus(c) /\ a # c
  /\ pa # None /\ pcv # None /\ pb # None
  /\ Pre(pa) # None
  /\ \E i \in 1..Len(c) : c[i] = "+"
  /\ r.ab = Some(-1) /\ r.cb = Some(-1)

\* The category the claim names for a directory that lines 228-264 stop.
ClaimedCategory(how) ==
  IF how.outcome = "invalid" THEN "InvalidDepVersion"
  ELSE IF how.result = None THEN "InvalidFixed"
  ELSE IF how.result = Some(0) THEN "SameVersion"
  ELSE "VersionNotGreater"

\* Lines 228-264 found the comparison not Greater, or a side not comparable.
Refused(n) ==
  \/ cmp_of[n].outcome = "invalid"
  \/ cmp_of[n].outcome = "compared" /\ cmp_of[n].result # Some(1)

\* Nothing was copied into Safe or Vul of the directory, and nothing swapped.
Untouched(n) == safe[n] = NoFile /\ vul[n] = NoFile /\ n \notin swapped

\* C10, as claimed: a swap only after compare_semver returned 1; a directory
\* whose comparison is Equal or Less, or whose versions cannot be compared,
\* is marked with SameVersion, VersionNotGreater, InvalidFixed or
\* InvalidDepVersion and gets no copy and no swap.
C10_MarkedWithItsCategory ==
  \A n \in SubNames :
    /\ n \in swapped => cmp_of[n] = Called(Some(1))
    /\ Refused(n) =>
         /\ primary_failure[n] = Some(ClaimedCategory(cmp_of[n]))
         /\ Untouched(n)

\* C10, amended: the same, but the directory is marked with that category
\* only when its dependency key is its own name; a directory that came to the
\* comparison through the single-dependency fallback keeps MismatchedDeps.
C10_SwapOnlyWhenGreater ==
  \A n \in SubNames :
    /\ n \in swapped => cmp_of[n] = Called(Some(1))
    /\ Refused(n) =>
         /\ primary_failure[n] =
              Some(IF HasKey(pkgs[n].dependencies, n)
                   THEN ClaimedCategory(cmp_of[n]) ELSE "MismatchedDeps")
         /\ Untouched(n)

\* A run that swapped one directory after Greater and refused another, which
\* came through the single-dependency fallback with equal versions.
C10_Witness ==
  /\ mpc = "done"
  /\ \E n \in SubNames, m \in SubNames :
       /\ n \in swapped /\ cmp_of[n] = Called(Some(1))
       /\ safe[n].fixedVersion = Str(Caret100)
       /\ cmp_of[m] = Called(Some(0))
       /\ primary_failure[m] = Some("MismatchedDeps")
       /\ Untouched(m)
====
